---- MODULE Spec2Model ----
(***************************************************************************)
(* Model of the lotus-lms-backend Lambda handlers:                         *)
(*   src/lambda/lambda_function.py    ledger writer, conditional create    *)
(*                                    then overwrite            ("LF")     *)
(*   src/lambda/update_transaction.py ledger writer, unconditional put     *)
(*                                                              ("UT")     *)
(*   src/lambda/handler.py            catalog router            ("CAT")    *)
(* Each invocation occupies a slot; the stores and the wall clock are      *)
(* shared.  A handler's local computation is one step; every store call is *)
(* a step of its own, so that concurrent invocations interleave between    *)
(* reading the clock and calling the store.                                *)
(***************************************************************************)
EXTENDS Integers, Sequences, FiniteSets, TLC

VARIABLES
    txns,      \* the transaction table: a set of items
    courses,   \* the course table: a set of items
    now,       \* the wall clock read by datetime.utcnow() / datetime.now()
    inv,       \* inv[s]: the invocation running in slot s
    nreq,      \* number of invocations admitted so far
    gateway,   \* the payloads of the calls made to the payment gateway
    users,     \* the user table: a set of items
    mappings,  \* the user-tenant mapping table: a set of items
    trigger    \* the post-confirmation trigger's invocation

vars == <<txns, courses, now, inv, nreq, gateway, users, mappings, trigger>>

\* the state of the post-confirmation trigger
provisioning == <<users, mappings, trigger>>

\* ---------------------------------------------------------------- bounds
MaxClock == 2
MaxReq == 2

Slots == {1, 2}

\* Python None / JSON null / an absent dict key as returned by dict.get
NULL == "<None>"

\* ------------------------------------------------------------ input sets
Tenants == {"t1", "t2"}
PaymentIds == {"pay_1", "pay_2"}
OrderIds == {"order_1"}
Statuses == {"success", "failed"}

\* ------------------------------------------------------- character data
\* Paths and course ids are sequences of one-character strings, so that
\* startswith, split and unquote are computed as the code computes them.
CoursesPath == <<"/", "c", "o", "u", "r", "s", "e", "s">>
CoursesPrefix == CoursesPath \o <<"/">>

IsPrefixAt(s, sep, i) ==
    /\ i + Len(sep) - 1 <= Len(s)
    /\ \A k \in 1..Len(sep) : s[i + k - 1] = sep[k]

\* str.startswith
StartsWith(s, pre) == IsPrefixAt(s, pre, 1)

\* index of the first occurrence of sep in s at or after i, 0 when none
RECURSIVE FindFrom(_, _, _)
FindFrom(s, sep, i) ==
    IF i + Len(sep) - 1 > Len(s) THEN 0
    ELSE IF IsPrefixAt(s, sep, i) THEN i
    ELSE FindFrom(s, sep, i + 1)

\* path.split(sep)[1]: the text between the first and the second
\* occurrence of sep (to the end when there is no second one).  Only
\* applied when sep occurs in path.
SplitSecond(s, sep) ==
    LET a == FindFrom(s, sep, 1)
        from == a + Len(sep)
        b == FindFrom(s, sep, from)
        to == IF b = 0 THEN Len(s) ELSE b - 1
    IN  SubSeq(s, from, to)

HexDigits == {"0", "1", "2", "3", "4", "5", "6", "7", "8", "9",
              "A", "B", "C", "D", "E", "F"}

\* the character a %XY escape stands for (the escapes of the model's alphabet)
HexChar(h, l) ==
    CASE h = "2" /\ l = "3" -> "#"
      [] h = "2" /\ l = "5" -> "%"
      [] h = "2" /\ l = "F" -> "/"
      [] OTHER -> "?"

\* urllib.parse.unquote: every %XY with two hex digits is replaced by the
\* character it encodes; a % not followed by two hex digits is kept.
RECURSIVE UnquoteFrom(_, _)
UnquoteFrom(s, i) ==
    IF i > Len(s) THEN << >>
    ELSE IF /\ s[i] = "%"
            /\ i + 2 <= Len(s)
            /\ s[i + 1] \in HexDigits
            /\ s[i + 2] \in HexDigits
         THEN <<HexChar(s[i + 1], s[i + 2])>> \o UnquoteFrom(s, i + 3)
         ELSE <<s[i]>> \o UnquoteFrom(s, i + 1)

unquote(s) == UnquoteFrom(s, 1)

\* ---------------------------------------------------------------- events
\* An API Gateway event.  httpMethod/path are the REST-style fields,
\* ctxMethod/rawPath the HTTP-API-style ones (requestContext.http.method,
\* rawPath).  NULL stands for an absent key.
\* headers.form: "absent" (no headers key), "null" (headers: null), "map";
\* lower/upper are the values under x-tenant-id / X-Tenant-Id (NULL: no key).
\* body.form: "absent" (no body key), "null", "str" (a JSON text), "dict";
\* body.json is the value the text denotes, kind "invalid" when it is not
\* JSON, "list" for a JSON array, "obj" for a JSON object.
NoPath == << >>

Header(form, lower, upper) == [form |-> form, lower |-> lower, upper |-> upper]

Json(kind, pid, oid, status) ==
    [kind |-> kind, razorpay_payment_id |-> pid,
     razorpay_order_id |-> oid, status |-> status]

NoJson == Json("none", NULL, NULL, NULL)
EmptyObj == Json("obj", NULL, NULL, NULL)

Body(form, json) == [form |-> form, json |-> json]

Event(hm, cm, p, rp, h, b) ==
    [httpMethod |-> hm, ctxMethod |-> cm, path |-> p, rawPath |-> rp,
     headers |-> h, body |-> b]

\* Python truthiness of an optional string: `not x` holds for None and ""
Truthy(x) == x # NULL /\ x # ""

\* a or b
Or(a, b) == IF Truthy(a) THEN a ELSE b

\* ------------------------------------------------------------- responses
\* body.msg is the "message" or "error" text of the JSON body, details its
\* "details" text; the other fields are NULL / -1 / {} when the body does
\* not carry them.
Resp(code, msg) ==
    [statusCode |-> code, msg |-> msg, details |-> NULL,
     transaction_id |-> NULL, status |-> NULL, timestamp |-> -1, items |-> {}]

\* a response whose body also carries "details": d
WithDetails(r, d) == [r EXCEPT !.details = d]

\* str(e) of the errors the handlers format into a body: the store's
\* diagnostic message, the JSON decoder's, and the AttributeError raised
\* by .get on a value that is not a dict
StoreDiagnostic == "ProvisionedThroughputExceededException"
JsonDiagnostic == "Expecting value"
AttributeDiagnostic == "object has no attribute 'get'"

NoResp == Resp(0, NULL)

Preflight == Resp(200, "CORS preflight success")

TxnOk(item, timestamp) ==
    [statusCode |-> 200, msg |-> "Transaction updated successfully",
     details |-> NULL, transaction_id |-> item.transaction_id, status |-> item.status,
     timestamp |-> timestamp, items |-> {}]

\* ----------------------------------------------------------- ledger items
\* created_at and updated_at hold the clock reading the ISO-8601 string is
\* formatted from; timestamps are compared as instants.
Item(tid, oid, status, ts, tenant) ==
    [transaction_id |-> tid, razorpay_order_id |-> oid, status |-> status,
     created_at |-> ts, updated_at |-> ts, tenant_id |-> tenant]

NoItem == Item(NULL, NULL, NULL, -1, NULL)

\* json.loads(body) if isinstance(body, str) else body, with
\* event.get("body", "{}") for an absent key
ParseBody(b) ==
    CASE b.form = "absent" -> EmptyObj
      [] b.form = "null" -> NoJson
      [] OTHER -> b.json

\* The outcome of the handler's local part: either an early response, or
\* the item to store.
Early(r) == [early |-> TRUE, resp |-> r, item |-> NoItem]
Proceed(item) == [early |-> FALSE, resp |-> NoResp, item |-> item]

\* body.get(...) and the required-field checks of lambda_function.py
LFValidate(body, ts) ==
    IF body.kind # "obj" THEN Early(Resp(500, "Internal server error"))
    ELSE IF ~Truthy(body.razorpay_payment_id)
         THEN Early(Resp(400, "Missing required field: razorpay_payment_id"))
    ELSE IF ~Truthy(body.razorpay_order_id)
         THEN Early(Resp(400, "Missing required field: razorpay_order_id"))
    ELSE IF ~Truthy(body.status)
         THEN Early(Resp(400, "Missing required field: status"))
    ELSE IF body.status \notin {"success", "failed"}
         THEN Early(Resp(400, "Invalid status. Must be 'success' or 'failed'"))
    ELSE Proceed(Item(body.razorpay_payment_id, body.razorpay_order_id,
                      body.status, ts, NULL))

\* lambda_function.py, lambda_handler up to the store call
LFLocal(ev, ts) ==
    LET http_method == IF ev.httpMethod = NULL THEN "" ELSE ev.httpMethod
        body == ParseBody(ev.body)
    IN  IF http_method = "OPTIONS" THEN Early(Preflight)
        ELSE IF body.kind = "invalid"
             THEN Early(WithDetails(Resp(400, "Invalid JSON format"),
                                    JsonDiagnostic))
        ELSE LFValidate(body, ts)

\* the required-field checks of update_transaction.py
UTValidate(body, tenant_id, ts) ==
    IF body.kind # "obj" THEN Early(WithDetails(Resp(500, "Internal server error"),
                           AttributeDiagnostic))
    ELSE IF \/ ~Truthy(body.razorpay_payment_id)
            \/ ~Truthy(body.razorpay_order_id)
            \/ ~Truthy(body.status)
         THEN Early(Resp(400, "Missing required fields"))
    ELSE IF body.status \notin {"success", "failed"}
         THEN Early(Resp(400, "Invalid status value"))
    ELSE Proceed(Item(body.razorpay_payment_id, body.razorpay_order_id,
                      body.status, ts, tenant_id))

\* update_transaction.py, lambda_handler up to the store call
UTLocal(ev, ts) ==
    LET http_method == Or(ev.httpMethod,
                          IF ev.ctxMethod = NULL THEN "" ELSE ev.ctxMethod)
        body == ParseBody(ev.body)
        tenant_id == Or(ev.headers.upper, ev.headers.lower)
    IN  IF http_method = "OPTIONS" THEN Early(Preflight)
        ELSE IF body.kind = "invalid"
             THEN Early(WithDetails(Resp(400, "Invalid JSON format"),
                                    JsonDiagnostic))
        ELSE IF ev.headers.form = "null"
             THEN Early(WithDetails(Resp(500, "Internal server error"),
                           AttributeDiagnostic))
        ELSE IF ~Truthy(tenant_id)
             THEN Early(Resp(400, "Missing required header"))
        ELSE UTValidate(body, tenant_id, ts)


\* ---------------------------------------------------------- course items
\* price is the stored Decimal in hundredths (50000 is Decimal("500"),
\* 19999 is Decimal("199.99")).
Course(tenant, cid, price) ==
    [tenant_id |-> tenant, course_id |-> cid, price |-> price]

\* default_serializer: a Decimal with no fractional part is written as an
\* int, any other as a float
DefaultSerializer(d) ==
    IF d % 100 = 0 THEN [kind |-> "int", value |-> d \div 100]
    ELSE [kind |-> "float", value |-> d]

\* json.dumps(item, default=default_serializer)
DumpCourse(c) ==
    [tenant_id |-> c.tenant_id, course_id |-> c.course_id,
     price |-> DefaultSerializer(c.price)]

\* Query with the bug of a scan that ignores the partition key
QueryScan(store, tenant) == store

\* table.query(KeyConditionExpression=Key("tenant_id").eq(tenant_id))
Query(store, tenant) == {c \in store : c.tenant_id = tenant}

\* table.get_item(Key={"tenant_id": ..., "course_id": ...}): the items
\* under the key (none or one)
GetItem(store, tenant, cid) ==
    {c \in store : c.tenant_id = tenant /\ c.course_id = cid}

\* The outcome of the catalog handler's local part: an early response or
\* the store call to issue.
CatEarly(r) ==
    [early |-> TRUE, resp |-> r, op |-> "none", tenant |-> NULL,
     course_id |-> NoPath]
CatCall(op, tenant, cid) ==
    [early |-> FALSE, resp |-> NoResp, op |-> op, tenant |-> tenant,
     course_id |-> cid]

\* CatLocal with the bug of routing without the tenant check
CatLocalRouteFirst(ev) ==
    LET tenant_id == IF ev.headers.form = "map"
                     THEN Or(ev.headers.lower, ev.headers.upper)
                     ELSE NULL
        http_method == IF ev.ctxMethod = NULL THEN "GET" ELSE ev.ctxMethod
        path == IF ev.rawPath = NoPath THEN <<"/">> ELSE ev.rawPath
    IN  IF http_method = "GET" /\ path = CoursesPath
        THEN CatCall("query", tenant_id, NoPath)
        ELSE IF http_method = "GET" /\ StartsWith(path, CoursesPrefix)
             THEN CatCall("get", tenant_id, unquote(SplitSecond(path, CoursesPrefix)))
        ELSE IF ~Truthy(tenant_id)
             THEN CatEarly(Resp(400, "Missing header x-tenant-id"))
        ELSE CatEarly(Resp(404, "Not found"))

\* handler.py, lambda_handler up to the store call.  An absent rawPath
\* (NoPath) defaults to "/", an absent method to "GET".
CatLocal(ev) ==
    LET tenant_id == IF ev.headers.form = "map"
                     THEN Or(ev.headers.lower, ev.headers.upper)
                     ELSE NULL
        http_method == IF ev.ctxMethod = NULL THEN "GET" ELSE ev.ctxMethod
        path == IF ev.rawPath = NoPath THEN <<"/">> ELSE ev.rawPath
    IN  IF ~Truthy(tenant_id) THEN CatEarly(Resp(400, "Missing header x-tenant-id"))
        ELSE IF http_method = "GET" /\ path = CoursesPath
             THEN CatCall("query", tenant_id, NoPath)
        ELSE IF http_method = "GET" /\ StartsWith(path, CoursesPrefix)
             THEN CatCall("get", tenant_id, unquote(SplitSecond(path, CoursesPrefix)))
        ELSE CatEarly(Resp(404, "Not found"))

\* handler.py: the response built from the store's answer
CatAnswer(store, call) ==
    IF call.op = "query"
    THEN [Resp(200, "items") EXCEPT
            !.items = {DumpCourse(c) : c \in Query(store, call.tenant)}]
    ELSE LET got == GetItem(store, call.tenant, call.course_id)
         IN  IF got = {} THEN Resp(404, "Course not found")
             ELSE [Resp(200, "item") EXCEPT
                     !.items = {DumpCourse(c) : c \in got}]

\* ----------------------------------------------------------- create order
\* body.get("course_id") when the body has no such key
NoId == <<NULL>>

\* `not course_id`
TruthyId(x) == x # NoId /\ x # << >>

OrderJson(kind, tenant, cid) ==
    [kind |-> kind, tenant_id |-> tenant, course_id |-> cid]

TypeDiagnostic == "the JSON object must be str, bytes or bytearray, not NoneType"
GatewayDiagnostic == "BAD_REQUEST_ERROR"
NetworkDiagnostic == "urlopen error"

\* int(Decimal): the integer part, truncated toward zero (d in hundredths)
int(d) == IF d >= 0 THEN d \div 100 ELSE -((-d) \div 100)

\* f"{tenant_id}-{course_id}"
Receipt(tenant, cid) == <<tenant, "-">> \o cid

\* the order payload built from the course item; the items of the course
\* table carry no currency attribute, so currency is the default
Payload(course, tenant, cid) ==
    [amount |-> int(course.price) * 100, currency |-> "INR",
     receipt |-> Receipt(tenant, cid)]

NoPayload == [amount |-> -1, currency |-> NULL, receipt |-> << >>]

OrderEarly(r) ==
    [early |-> TRUE, resp |-> r, tenant |-> NULL, course_id |-> NoId]
OrderCall(tenant, cid) ==
    [early |-> FALSE, resp |-> NoResp, tenant |-> tenant, course_id |-> cid]

\* lambda_create_order.py, lambda_handler up to the store call.  An absent
\* body is parsed as "{}"; a null body, an invalid body and a body that is
\* not an object raise and are answered by the outer handler
OrderLocal(ev) ==
    LET b == ev.body
    IN  IF b.form = "null" THEN OrderEarly(Resp(500, TypeDiagnostic))
        ELSE IF b.form = "str" /\ b.json.kind = "invalid"
             THEN OrderEarly(Resp(500, JsonDiagnostic))
        ELSE IF b.form = "str" /\ b.json.kind # "obj"
             THEN OrderEarly(Resp(500, AttributeDiagnostic))
        ELSE LET body == IF b.form = "absent" THEN OrderJson("obj", NULL, NoId)
                         ELSE b.json
             IN  IF ~Truthy(body.tenant_id) \/ ~TruthyId(body.course_id)
                 THEN OrderEarly(Resp(400, "tenant_id and course_id are required"))
                 ELSE OrderCall(body.tenant_id, body.course_id)

\* ------------------------------------------------------ post confirmation
\* The Cognito event: userName (NULL when the key is absent) and
\* request.userAttributes (form "absent" when request or userAttributes is
\* absent, else the string map with its optional keys).
Attrs(form, email, username, name) ==
    [form |-> form, email |-> email, username |-> username, name |-> name]

NoAttrs == Attrs("absent", NULL, NULL, NULL)

CogEvent(userName, attrs) == [userName |-> userName, userAttributes |-> attrs]

NoCogEvent == CogEvent(NULL, NoAttrs)

\* dict.get(key, default)
Get(x, default) == IF x = NULL THEN default ELSE x

UserItem(ev, created_at) ==
    LET user_attrs == ev.userAttributes
        email == Get(user_attrs.email, "")
    IN  [user_id |-> ev.userName, email |-> email,
         username |-> Get(user_attrs.username, email),
         full_name |-> Get(user_attrs.name, ""),
         created_at |-> created_at, status |-> "active"]

UserTenantItem(ev, created_at) ==
    [user_id |-> ev.userName, tenant_id |-> "trainer1", role |-> "student",
     email |-> Get(ev.userAttributes.email, ""), created_at |-> created_at]

\* put_item on a table keyed by user_id
PutByUser(store, item) ==
    {r \in store : r.user_id # item.user_id} \cup {item}

Trigger(pc, ev, created_at, userPuts, mapPuts, userFailed, mapFailed, returned, ret, raised) ==
    [pc |-> pc, ev |-> ev, created_at |-> created_at, userPuts |-> userPuts,
     mapPuts |-> mapPuts, userFailed |-> userFailed, mapFailed |-> mapFailed,
     returned |-> returned, ret |-> ret, raised |-> raised]

NoTrigger ==
    Trigger("idle", NoCogEvent, -1, 0, 0, FALSE, FALSE, FALSE, NoCogEvent, NULL)

Confirmed(e) ==
    Trigger("start", e, -1, 0, 0, FALSE, FALSE, FALSE, NoCogEvent, NULL)

\* ------------------------------------------------------------ the stores
HasTxn(store, tid) == \E r \in store : r.transaction_id = tid

TxnOf(store, tid) == CHOOSE r \in store : r.transaction_id = tid

\* PutItem with the bug of a store that appends instead of replacing
PutItemAppend(store, item) == store \cup {item}

\* table.put_item(Item=item): the item replaces any item with the same key
PutItem(store, item) ==
    {r \in store : r.transaction_id # item.transaction_id} \cup {item}

\* -------------------------------------------------------------- the slots
NoEvent == Event(NULL, NULL, NoPath, NoPath, Header("absent", NULL, NULL),
                 Body("absent", NoJson))

\* dup, fault, replaced and calls are history fields: whether the
\* conditional insert hit an existing item, whether a store call raised an
\* error other than the precondition failure, the status of the item the
\* final write replaced, and the number of store calls issued.
Slot(pc, handler, ev, item, timestamp, resp, calls, dup, fault, replaced, payload) ==
    [pc |-> pc, handler |-> handler, ev |-> ev, item |-> item,
     timestamp |-> timestamp, resp |-> resp, calls |-> calls, dup |-> dup,
     fault |-> fault, replaced |-> replaced, payload |-> payload]

Idle ==
    Slot("idle", NULL, NoEvent, NoItem, -1, NoResp, 0, FALSE, FALSE, NULL,
         NoPayload)

Fresh(h, e) ==
    Slot("start", h, e, NoItem, -1, NoResp, 0, FALSE, FALSE, NULL, NoPayload)

StatusOf(store, tid) ==
    IF HasTxn(store, tid) THEN TxnOf(store, tid).status ELSE NULL

\* the invocation returns r
Return(s, r) == [inv EXCEPT ![s].pc = "done", ![s].resp = r]

\* ---------------------------------------------------------------- actions
\* the clock advances
Tick ==
    /\ now < MaxClock
    /\ now' = now + 1
    /\ UNCHANGED <<provisioning, gateway, txns, courses, inv, nreq>>

\* API Gateway invokes handler h with event e in a free slot
Arrive(s, h, e) ==
    /\ inv[s].pc = "idle"
    /\ nreq < MaxReq
    /\ inv' = [inv EXCEPT ![s] = Fresh(h, e)]
    /\ nreq' = nreq + 1
    /\ UNCHANGED <<provisioning, gateway, txns, courses, now>>

\* the local part of a ledger handler: CORS, parsing, validation, the
\* timestamp and the item
LedgerStart(s) ==
    /\ inv[s].pc = "start"
    /\ inv[s].handler \in {"LF", "UT"}
    /\ LET out == IF inv[s].handler = "LF" THEN LFLocal(inv[s].ev, now)
                  ELSE UTLocal(inv[s].ev, now)
       IN  inv' = IF out.early THEN Return(s, out.resp)
                  ELSE [inv EXCEPT ![s].pc = "put", ![s].item = out.item,
                                   ![s].timestamp = now]
    /\ UNCHANGED <<provisioning, gateway, txns, courses, now, nreq>>

\* lambda_function.py: put_item with attribute_not_exists(transaction_id),
\* the condition holds
CondPutOk(s) ==
    /\ inv[s].pc = "put"
    /\ inv[s].handler = "LF"
    /\ ~HasTxn(txns, inv[s].item.transaction_id)
    /\ txns' = PutItem(txns, inv[s].item)
    /\ inv' = [inv EXCEPT ![s].pc = "done",
                          ![s].resp = TxnOk(inv[s].item, inv[s].timestamp),
                          ![s].calls = @ + 1]
    /\ UNCHANGED <<provisioning, gateway, courses, now, nreq>>

\* CondPutFails with the bug of treating the precondition failure like any
\* other store error
CondPutFailsSurfaced(s) ==
    /\ inv[s].pc = "put"
    /\ inv[s].handler = "LF"
    /\ HasTxn(txns, inv[s].item.transaction_id)
    /\ inv' = [inv EXCEPT ![s].pc = "done", ![s].dup = TRUE,
                          ![s].resp = Resp(500, "Failed to store transaction in database"),
                          ![s].calls = @ + 1]
    /\ UNCHANGED <<provisioning, gateway, txns, courses, now, nreq>>

\* lambda_function.py: the condition fails, ConditionalCheckFailedException
\* is caught
CondPutFails(s) ==
    /\ inv[s].pc = "put"
    /\ inv[s].handler = "LF"
    /\ HasTxn(txns, inv[s].item.transaction_id)
    /\ inv' = [inv EXCEPT ![s].pc = "dup", ![s].dup = TRUE, ![s].calls = @ + 1]
    /\ UNCHANGED <<provisioning, gateway, txns, courses, now, nreq>>

\* lambda_function.py: the conditional put raises any other error
CondPutError(s) ==
    /\ inv[s].pc = "put"
    /\ inv[s].handler = "LF"
    /\ inv' = [inv EXCEPT ![s].pc = "done",
                          ![s].resp = Resp(500, "Failed to store transaction in database"),
                          ![s].calls = @ + 1, ![s].fault = TRUE]
    /\ UNCHANGED <<provisioning, gateway, txns, courses, now, nreq>>

\* lambda_function.py: item['updated_at'] = now, in the except branch
Refresh(s) ==
    /\ inv[s].pc = "dup"
    /\ inv' = [inv EXCEPT ![s].pc = "overwrite", ![s].item.updated_at = now]
    /\ UNCHANGED <<provisioning, gateway, txns, courses, now, nreq>>

\* Overwrite with the bug of answering without writing the item
OverwriteSkipped(s) ==
    /\ inv[s].pc = "overwrite"
    /\ inv' = [inv EXCEPT ![s].pc = "done",
                          ![s].resp = TxnOk(inv[s].item, inv[s].timestamp),
                          ![s].calls = @ + 1,
                          ![s].replaced = StatusOf(txns, inv[s].item.transaction_id)]
    /\ UNCHANGED <<provisioning, gateway, txns, courses, now, nreq>>

\* lambda_function.py: the unconditional put_item of the except branch
Overwrite(s) ==
    /\ inv[s].pc = "overwrite"
    /\ txns' = PutItem(txns, inv[s].item)
    /\ inv' = [inv EXCEPT ![s].pc = "done",
                          ![s].resp = TxnOk(inv[s].item, inv[s].timestamp),
                          ![s].calls = @ + 1,
                          ![s].replaced = StatusOf(txns, inv[s].item.transaction_id)]
    /\ UNCHANGED <<provisioning, gateway, courses, now, nreq>>

\* lambda_function.py: the unconditional put raises inside the except
\* branch; the outer handler answers
OverwriteError(s) ==
    /\ inv[s].pc = "overwrite"
    /\ inv' = [inv EXCEPT ![s].pc = "done",
                          ![s].resp = Resp(500, "Internal server error"),
                          ![s].calls = @ + 1, ![s].fault = TRUE]
    /\ UNCHANGED <<provisioning, gateway, txns, courses, now, nreq>>

\* update_transaction.py: table.put_item(Item=transaction_item)
UTPut(s) ==
    /\ inv[s].pc = "put"
    /\ inv[s].handler = "UT"
    /\ txns' = PutItem(txns, inv[s].item)
    /\ inv' = [inv EXCEPT ![s].pc = "done",
                          ![s].resp = TxnOk(inv[s].item, inv[s].timestamp),
                          ![s].calls = @ + 1,
                          ![s].replaced = StatusOf(txns, inv[s].item.transaction_id)]
    /\ UNCHANGED <<provisioning, gateway, courses, now, nreq>>

\* update_transaction.py: put_item raises
UTPutError(s) ==
    /\ inv[s].pc = "put"
    /\ inv[s].handler = "UT"
    /\ inv' = [inv EXCEPT ![s].pc = "done",
                          ![s].resp = WithDetails(
                              Resp(500, "Failed to store transaction"),
                              StoreDiagnostic),
                          ![s].calls = @ + 1, ![s].fault = TRUE]
    /\ UNCHANGED <<provisioning, gateway, txns, courses, now, nreq>>

\* the response is delivered and the slot is free again
Release(s) ==
    /\ inv[s].pc = "done"
    /\ inv' = [inv EXCEPT ![s] = Idle]
    /\ UNCHANGED <<provisioning, gateway, txns, courses, now, nreq>>

\* handler.py: the whole invocation when it returns early or its one store
\* call succeeds
CatalogHandle(s) ==
    /\ inv[s].pc = "start"
    /\ inv[s].handler = "CAT"
    /\ LET call == CatLocal(inv[s].ev)
       IN  inv' = IF call.early THEN Return(s, call.resp)
                  ELSE [inv EXCEPT ![s].pc = "done",
                                   ![s].resp = CatAnswer(courses, call),
                                   ![s].calls = @ + 1]
    /\ UNCHANGED <<provisioning, gateway, txns, courses, now, nreq>>

\* handler.py: the store call raises; the outer handler answers 500
CatalogStoreError(s) ==
    /\ inv[s].pc = "start"
    /\ inv[s].handler = "CAT"
    /\ ~CatLocal(inv[s].ev).early
    /\ inv' = [inv EXCEPT ![s].pc = "done",
                          ![s].resp = Resp(500, StoreDiagnostic),
                          ![s].calls = @ + 1, ![s].fault = TRUE]
    /\ UNCHANGED <<provisioning, gateway, txns, courses, now, nreq>>

\* lambda_create_order.py: the local part and get_item, when get_item
\* answers: an early response, 404, or the payload ready to be sent
OrderHandle(s) ==
    /\ inv[s].pc = "start"
    /\ inv[s].handler = "ORD"
    /\ LET call == OrderLocal(inv[s].ev)
           got == GetItem(courses, call.tenant, call.course_id)
       IN  inv' = IF call.early THEN Return(s, call.resp)
                  ELSE IF got = {}
                       THEN [inv EXCEPT ![s].pc = "done",
                                        ![s].resp = Resp(404, "Course not found"),
                                        ![s].calls = @ + 1]
                  ELSE [inv EXCEPT
                          ![s].pc = "post",
                          ![s].calls = @ + 1,
                          ![s].payload =
                              Payload(CHOOSE c \in got : TRUE,
                                      call.tenant, call.course_id)]
    /\ UNCHANGED <<provisioning, gateway, txns, courses, now, nreq>>

\* lambda_create_order.py: get_item raises; the outer handler answers 500
OrderStoreError(s) ==
    /\ inv[s].pc = "start"
    /\ inv[s].handler = "ORD"
    /\ ~OrderLocal(inv[s].ev).early
    /\ inv' = [inv EXCEPT ![s].pc = "done",
                          ![s].resp = Resp(500, StoreDiagnostic),
                          ![s].calls = @ + 1, ![s].fault = TRUE]
    /\ UNCHANGED <<provisioning, gateway, txns, courses, now, nreq>>

\* lambda_create_order.py: urlopen answers with the created order
OrderPostOk(s) ==
    /\ inv[s].pc = "post"
    /\ gateway' = Append(gateway, inv[s].payload)
    /\ inv' = Return(s, Resp(200, "order"))
    /\ UNCHANGED <<provisioning, txns, courses, now, nreq>>

\* lambda_create_order.py: urlopen raises HTTPError, the gateway rejected
\* the order
OrderPostRejected(s) ==
    /\ inv[s].pc = "post"
    /\ gateway' = Append(gateway, inv[s].payload)
    /\ inv' = [Return(s, WithDetails(Resp(500, "Failed to create order"),
                                     GatewayDiagnostic))
                 EXCEPT ![s].fault = TRUE]
    /\ UNCHANGED <<provisioning, txns, courses, now, nreq>>

\* lambda_create_order.py: urlopen raises any other error (URLError); the
\* outer handler answers 500
OrderPostFails(s) ==
    /\ inv[s].pc = "post"
    /\ gateway' = Append(gateway, inv[s].payload)
    /\ inv' = [Return(s, Resp(500, NetworkDiagnostic)) EXCEPT ![s].fault = TRUE]
    /\ UNCHANGED <<provisioning, txns, courses, now, nreq>>

OrderStep(s) ==
    \/ OrderHandle(s)
    \/ OrderStoreError(s)
    \/ OrderPostOk(s)
    \/ OrderPostRejected(s)
    \/ OrderPostFails(s)

\* cognito_post_confirmation.py: the event is read and the clock is read;
\* a missing userName, request or userAttributes key raises KeyError, which
\* nothing catches
ConfirmStart ==
    /\ trigger.pc = "start"
    /\ trigger' =
         IF trigger.ev.userName = NULL \/ trigger.ev.userAttributes.form = "absent"
         THEN [trigger EXCEPT !.pc = "raised", !.raised = "KeyError"]
         ELSE [trigger EXCEPT !.pc = "user", !.created_at = now]
    /\ UNCHANGED <<users, mappings, gateway, txns, courses, now, inv, nreq>>

\* cognito_post_confirmation.py: users_table.put_item succeeds
PutUserOk ==
    /\ trigger.pc = "user"
    /\ users' = PutByUser(users, UserItem(trigger.ev, trigger.created_at))
    /\ trigger' = [trigger EXCEPT !.pc = "mapping", !.userPuts = @ + 1]
    /\ UNCHANGED <<mappings, gateway, txns, courses, now, inv, nreq>>

\* PutUserError with the bug of letting the store error propagate
PutUserErrorPropagates ==
    /\ trigger.pc = "user"
    /\ trigger' = [trigger EXCEPT !.pc = "raised", !.userPuts = @ + 1,
                                  !.userFailed = TRUE,
                                  !.raised = StoreDiagnostic]
    /\ UNCHANGED <<users, mappings, gateway, txns, courses, now, inv, nreq>>

\* cognito_post_confirmation.py: users_table.put_item raises; the error is
\* caught and logged
PutUserError ==
    /\ trigger.pc = "user"
    /\ trigger' = [trigger EXCEPT !.pc = "mapping", !.userPuts = @ + 1,
                                  !.userFailed = TRUE]
    /\ UNCHANGED <<users, mappings, gateway, txns, courses, now, inv, nreq>>

\* cognito_post_confirmation.py: user_tenant_mapping_table.put_item
\* succeeds; the handler returns the event
PutMappingOk ==
    /\ trigger.pc = "mapping"
    /\ mappings' = PutByUser(mappings,
                             UserTenantItem(trigger.ev, trigger.created_at))
    /\ trigger' = [trigger EXCEPT !.pc = "done", !.mapPuts = @ + 1,
                                  !.returned = TRUE, !.ret = trigger.ev]
    /\ UNCHANGED <<users, gateway, txns, courses, now, inv, nreq>>

\* cognito_post_confirmation.py: user_tenant_mapping_table.put_item raises;
\* the error is caught and logged, and the handler returns the event
PutMappingError ==
    /\ trigger.pc = "mapping"
    /\ trigger' = [trigger EXCEPT !.pc = "done", !.mapPuts = @ + 1,
                                  !.mapFailed = TRUE,
                                  !.returned = TRUE, !.ret = trigger.ev]
    /\ UNCHANGED <<users, mappings, gateway, txns, courses, now, inv, nreq>>

LedgerStep(s) ==
    \/ LedgerStart(s)
    \/ CondPutOk(s)
    \/ CondPutFails(s)
    \/ CondPutError(s)
    \/ Refresh(s)
    \/ Overwrite(s)
    \/ OverwriteError(s)
    \/ UTPut(s)
    \/ UTPutError(s)

\* ------------------------------------- the ledger under concurrent load
\* well-formed payment notifications, in both envelope shapes
Notification(p, st) ==
    Event("POST", NULL, NoPath, NoPath, Header("map", NULL, "t1"),
          Body("str", Json("obj", p, "order_1", st)))

LedgerEvents ==
    {Notification("pay_1", "success"), Notification("pay_1", "failed"),
     Notification("pay_2", "success")}

Init ==
    /\ txns = {}
    /\ courses = {}
    /\ now = 0
    /\ inv = [s \in Slots |-> Idle]
    /\ nreq = 0
    /\ gateway = << >>
    /\ users = {}
    /\ mappings = {}
    /\ trigger = NoTrigger

Next ==
    \/ Tick
    \/ \E s \in Slots, h \in {"LF", "UT"}, e \in LedgerEvents : Arrive(s, h, e)
    \/ \E s \in Slots : LedgerStep(s)
    \/ \E s \in Slots : Release(s)

Spec == Init /\ [][Next]_vars

\* --------------------------------------- the ledger, one request at a time
NextSeq ==
    \/ Tick
    \/ \E h \in {"LF", "UT"}, e \in LedgerEvents : Arrive(1, h, e)
    \/ LedgerStep(1)
    \/ Release(1)

SpecSeq == Init /\ [][NextSeq]_vars

\* ------------------------------------ one invocation on every input shape
Root == <<"/">>
Videos == <<"/", "v", "i", "d", "e", "o", "s">>
PathC1 == CoursesPrefix \o <<"c", "1">>
PathHash == CoursesPrefix \o <<"c", "%", "2", "3", "1">>
PathC2 == CoursesPrefix \o <<"c", "2">>

Paths == {Root, CoursesPath, CoursesPrefix, PathC1, PathHash, PathC2, Videos}

IdC1 == <<"c", "1">>
IdHash == <<"c", "#", "1">>

CourseUniverse ==
    {Course("t1", IdC1, 50000), Course("t2", IdC1, 30000),
     Course("t1", IdHash, 19999)}

CourseStores == SUBSET CourseUniverse

HeaderValues == {NULL, "", "t1", "t2"}

CatalogHeaders ==
    {Header("absent", NULL, NULL), Header("null", NULL, NULL)}
    \cup {Header("map", l, u) : l \in HeaderValues, u \in HeaderValues}

NoBody == Body("absent", NoJson)

\* HTTP-API-style, REST-style, and events carrying both sets of fields
CatalogShapes ==
    {<<NULL, cm, NoPath, rp>> :
        cm \in {NULL, "GET", "POST", "OPTIONS"}, rp \in Paths \cup {NoPath}}
    \cup {<<hm, NULL, p, NoPath>> : hm \in {"GET", "POST", "OPTIONS"}, p \in Paths}
    \cup {<<hm, cm, p, p>> :
        hm \in {"GET", "POST", "OPTIONS"}, cm \in {"GET", "POST", "OPTIONS"},
        p \in Paths}
    \cup {<<"GET", "GET", CoursesPath, PathC1>>, <<"GET", "GET", PathC1, CoursesPath>>}

CatalogEvents ==
    {Event(sh[1], sh[2], sh[3], sh[4], h, NoBody) :
        sh \in CatalogShapes, h \in CatalogHeaders}

LedgerHeaders ==
    {Header("absent", NULL, NULL), Header("null", NULL, NULL),
     Header("map", NULL, NULL), Header("map", NULL, "t1"),
     Header("map", "t1", NULL)}

JsonObjects ==
    {Json("obj", p, o, st) :
        p \in {NULL, "", "pay_1"}, o \in {NULL, "order_1"},
        st \in {NULL, "success", "failed", "pending"}}

LedgerBodies ==
    {Body("absent", NoJson), Body("null", NoJson),
     Body("str", Json("invalid", NULL, NULL, NULL)),
     Body("str", Json("list", NULL, NULL, NULL))}
    \cup {Body(f, j) : f \in {"str", "dict"}, j \in JsonObjects}

AllLedgerEvents ==
    {Event(hm, cm, NoPath, NoPath, h, b) :
        hm \in {NULL, "POST", "OPTIONS"}, cm \in {NULL, "POST", "OPTIONS"},
        h \in LedgerHeaders, b \in LedgerBodies}

\* the transaction table before the request: empty, or holding pay_1 from
\* an earlier notification
SeedStores == {{}, {Item("pay_1", "order_1", "failed", 0, NULL)}}

\* create-order requests: every body form, and every combination of a
\* missing, empty or present tenant_id and course_id
OrderBodies ==
    {Body("absent", NoJson), Body("null", NoJson),
     Body("str", OrderJson("invalid", NULL, NoId)),
     Body("str", OrderJson("list", NULL, NoId))}
    \cup {Body("str", OrderJson("obj", t, c)) :
            t \in {NULL, "", "t1", "t2"}, c \in {NoId, << >>, IdC1, IdHash}}

OrderEvents ==
    {Event(NULL, NULL, NoPath, NoPath, Header("absent", NULL, NULL), b) :
        b \in OrderBodies}

StartWith(h, e) ==
    /\ now = 1
    /\ inv = [s \in Slots |-> IF s = 1 THEN Fresh(h, e) ELSE Idle]
    /\ nreq = 1
    /\ gateway = << >>
    /\ users = {}
    /\ mappings = {}
    /\ trigger = NoTrigger

InitHttp ==
    \/ /\ txns = {}
       /\ courses \in CourseStores
       /\ \E e \in CatalogEvents : StartWith("CAT", e)
    \/ /\ txns \in SeedStores
       /\ courses = {}
       /\ \E h \in {"LF", "UT"}, e \in AllLedgerEvents : StartWith(h, e)
    \/ /\ txns = {}
       /\ courses \in CourseStores
       /\ \E e \in OrderEvents : StartWith("ORD", e)

NextHttp ==
    \/ Tick
    \/ LedgerStep(1)
    \/ CatalogHandle(1)
    \/ CatalogStoreError(1)
    \/ OrderStep(1)

SpecHttp == InitHttp /\ [][NextHttp]_vars

\* ------------------------------------- the post-confirmation trigger
\* confirmation events: with and without userName, with and without the
\* attribute map, every combination of its optional keys
CogEvents ==
    {CogEvent(u, a) :
        u \in {NULL, "u1", "u2"},
        a \in {NoAttrs}
              \cup {Attrs("map", e, n, f) :
                      e \in {NULL, "a@x"}, n \in {NULL, "alice"},
                      f \in {NULL, "Alice"}}}

\* the tables before the trigger: empty, or holding u1 from an earlier
\* confirmation
EarlierUser == UserItem(CogEvent("u1", Attrs("map", "old@x", NULL, NULL)), 0)
EarlierMapping ==
    UserTenantItem(CogEvent("u1", Attrs("map", "old@x", NULL, NULL)), 0)

InitCognito ==
    /\ txns = {}
    /\ courses = {}
    /\ now = 1
    /\ inv = [s \in Slots |-> Idle]
    /\ nreq = 0
    /\ gateway = << >>
    /\ users \in {{}, {EarlierUser}}
    /\ mappings \in {{}, {EarlierMapping}}
    /\ \E e \in CogEvents : trigger = Confirmed(e)

NextCognito ==
    \/ Tick
    \/ ConfirmStart
    \/ PutUserOk
    \/ PutUserError
    \/ PutMappingOk
    \/ PutMappingError

SpecCognito == InitCognito /\ [][NextCognito]_vars

\* ------------------------------------------------------ response headers
\* The header map each handler's response builder attaches to every
\* response it builds.  NULL: the header is not set; allowHeaders is the set
\* of names listed in Access-Control-Allow-Headers ({} when not set).
Headers(contentType, allowOrigin, allowMethods, allowHeaders) ==
    [contentType |-> contentType, allowOrigin |-> allowOrigin,
     allowMethods |-> allowMethods, allowHeaders |-> allowHeaders]

\* lambda_function.py build_response (the origin defaults to "*")
LFHeaders ==
    Headers("application/json", "*", "POST,OPTIONS",
            {"Content-Type", "X-Tenant-Id", "Authorization"})

\* update_transaction.py response
UTHeaders ==
    Headers("application/json", "*", "POST,OPTIONS",
            {"Content-Type", "X-Tenant-Id", "Authorization"})

\* handler.py response
CatHeaders == Headers("application/json", "*", NULL, {})

\* lambda_create_order.py _response
OrderHeaders ==
    Headers("application/json", "*", "POST,OPTIONS", {"Content-Type"})

\* list_videos.py build_response
VideoHeaders ==
    Headers(NULL, "*", "GET,OPTIONS",
            {"Content-Type", "X-Tenant-Id", "Authorization"})

\* get_user_tenant.py response
UserTenantHeaders ==
    Headers("application/json", "*", "GET,OPTIONS",
            {"Content-Type", "X-Tenant-Id", "Authorization"})

ResponseHeaders(h) ==
    CASE h = "LF" -> LFHeaders
      [] h = "UT" -> UTHeaders
      [] h = "CAT" -> CatHeaders
      [] h = "ORD" -> OrderHeaders
      [] h = "VID" -> VideoHeaders
      [] h = "GUT" -> UserTenantHeaders

\* the response as the handler returns it: statusCode, headers, body
Envelope(s) ==
    [statusCode |-> inv[s].resp.statusCode,
     headers |-> ResponseHeaders(inv[s].handler),
     body |-> inv[s].resp]

\* ====================================================================
\* Properties
\* ====================================================================
Ledger(s) == inv[s].handler \in {"LF", "UT"}

\* the method and path a request carries: the explicit field first, then
\* the nested one, then the default
RequestMethod(ev) ==
    IF ev.httpMethod # NULL THEN ev.httpMethod
    ELSE IF ev.ctxMethod # NULL THEN ev.ctxMethod ELSE "GET"

\* no usable tenant id under either spelling of the header
NoTenant(h) == h.form # "map" \/ (~Truthy(h.lower) /\ ~Truthy(h.upper))

\* -------------------------------------------------------------------
\* C1: under every interleaving of ledger writes the transaction table
\* holds at most one item per transaction_id, and an item, once present
\* for a transaction_id, is present in every later state.
AtMostOnePerId ==
    \A r1 \in txns, r2 \in txns :
        r1.transaction_id = r2.transaction_id => r1 = r2

NeverDeleted ==
    \A p \in PaymentIds : HasTxn(txns, p) => HasTxn(txns', p)

C1_OneRecordNeverDeleted == []AtMostOnePerId /\ [][NeverDeleted]_vars

\* two invocations for the same payment overlapped: s read the clock
\* before t did, found t's item in its conditional insert and overwrote it
C1_Witness ==
    \E s \in Slots, t \in Slots :
        /\ s # t
        /\ inv[s].pc = "done" /\ inv[s].dup /\ inv[s].replaced # NULL
        /\ inv[t].pc = "done" /\ inv[t].resp.statusCode = 200
        /\ inv[t].item.transaction_id = inv[s].item.transaction_id
        /\ inv[s].timestamp < inv[t].timestamp
        /\ txns = {inv[s].item}

\* -------------------------------------------------------------------
\* C2: the same (payment id, order id, status) submitted twice, one
\* request after the other, leaves exactly one item, whose updated_at is
\* not earlier than the first call's updated_at and created_at, and whose
\* created_at is the one the first call wrote.
SameNotification(old, new) ==
    /\ old.razorpay_order_id = new.razorpay_order_id
    /\ old.status = new.status

C2_Step ==
    \A p \in PaymentIds :
        (/\ HasTxn(txns, p)
         /\ inv[1].pc \in {"put", "overwrite"}
         /\ inv'[1].pc = "done"
         /\ inv'[1].resp.statusCode = 200
         /\ inv[1].item.transaction_id = p
         /\ SameNotification(TxnOf(txns, p), inv[1].item))
        => /\ Cardinality({r \in txns' : r.transaction_id = p}) = 1
           /\ TxnOf(txns', p).updated_at >= TxnOf(txns, p).updated_at
           /\ TxnOf(txns', p).updated_at >= TxnOf(txns, p).created_at
           /\ TxnOf(txns', p).created_at = TxnOf(txns, p).created_at

C2_IdempotentResubmission == [][C2_Step]_vars

\* -------------------------------------------------------------------
\* C3: under every interleaving, each step that changes the stored item
\* of a transaction_id leaves it with a created_at that is present and
\* not earlier than the one stored before.
C3_Step ==
    \A p \in PaymentIds :
        HasTxn(txns, p)
        => /\ HasTxn(txns', p)
           /\ TxnOf(txns', p).created_at >= 0
           /\ TxnOf(txns', p).created_at >= TxnOf(txns, p).created_at

C3_CreatedAtNeverBackward == [][C3_Step]_vars

\* -------------------------------------------------------------------
\* C4: under every interleaving, the stored updated_at of a
\* transaction_id never decreases from one store write to the next.
C4_Step ==
    \A p \in PaymentIds :
        (HasTxn(txns, p) /\ HasTxn(txns', p))
        => TxnOf(txns', p).updated_at >= TxnOf(txns, p).updated_at

C4_UpdatedAtNeverDecreases == [][C4_Step]_vars

\* -------------------------------------------------------------------
\* C5: a valid request whose conditional insert hits an existing item is
\* taken to the overwrite path; it is answered 200 unless the overwrite
\* itself raises, and never answered from the precondition failure.
C5_PreconditionFailureRecovered ==
    \A s \in Slots :
        (inv[s].handler = "LF" /\ inv[s].dup)
        => /\ inv[s].pc \in {"dup", "overwrite", "done"}
           /\ inv[s].pc = "done" => inv[s].calls = 2
           /\ (inv[s].pc = "done" /\ ~inv[s].fault)
              => /\ inv[s].resp = TxnOk(inv[s].item, inv[s].timestamp)
                 /\ inv[s].replaced # NULL

C5_Witness ==
    \E s \in Slots :
        /\ inv[s].handler = "LF" /\ inv[s].dup /\ inv[s].pc = "done"
        /\ ~inv[s].fault
        /\ inv[s].resp.statusCode = 200
        /\ TxnOf(txns, inv[s].item.transaction_id) = inv[s].item

\* -------------------------------------------------------------------
\* C6: with requests processed one after the other, once a notification
\* has been answered 200 the stored status of its payment is the status it
\* carried, also when the item existed with another status (last delivery
\* wins), in both ledger writers.
C6_LastDeliveryWins ==
    (Ledger(1) /\ inv[1].pc = "done" /\ inv[1].resp.statusCode = 200)
    => /\ HasTxn(txns, inv[1].ev.body.json.razorpay_payment_id)
       /\ TxnOf(txns, inv[1].ev.body.json.razorpay_payment_id).status
            = inv[1].ev.body.json.status

C6_Witness ==
    /\ inv[1].handler = "LF" /\ inv[1].pc = "done"
    /\ inv[1].resp.statusCode = 200
    /\ inv[1].replaced \in Statuses \ {inv[1].ev.body.json.status}
    /\ TxnOf(txns, "pay_1").status = inv[1].ev.body.json.status

\* -------------------------------------------------------------------
\* C7: a ledger-write request that fails validation (a body that is not
\* valid JSON, a body lacking razorpay_payment_id, razorpay_order_id or
\* status, a status outside {success, failed}) is answered 400 and issues
\* no store call, for every body value, a non-object JSON body and an
\* absent or null body included.
FailsValidation(b) ==
    LET j == ParseBody(b)
    IN  \/ j.kind = "invalid"
        \/ j.kind # "obj"
        \/ ~Truthy(j.razorpay_payment_id)
        \/ ~Truthy(j.razorpay_order_id)
        \/ ~Truthy(j.status)
        \/ j.status \notin Statuses

NotPreflight(ev) == ev.httpMethod # "OPTIONS" /\ ev.ctxMethod # "OPTIONS"

C7_ValidationFailureIs400 ==
    (/\ Ledger(1)
     /\ inv[1].pc = "done"
     /\ NotPreflight(inv[1].ev)
     /\ FailsValidation(inv[1].ev.body))
    => /\ inv[1].resp.statusCode = 400
       /\ inv[1].calls = 0
       /\ txns \in SeedStores

\* -------------------------------------------------------------------
\* C8: a catalog request that is not an OPTIONS request and carries no
\* tenant id (neither header spelling, an empty value, or no headers map)
\* is answered 400 and issues no query or get against the course table.
C8_MissingTenantIs400 ==
    (/\ inv[1].handler = "CAT"
     /\ inv[1].pc = "done"
     /\ NotPreflight(inv[1].ev)
     /\ NoTenant(inv[1].ev.headers))
    => /\ inv[1].resp = Resp(400, "Missing header x-tenant-id")
       /\ inv[1].calls = 0

C8_Witness ==
    /\ inv[1].handler = "CAT" /\ inv[1].pc = "done"
    /\ inv[1].ev.ctxMethod = "GET" /\ inv[1].ev.rawPath = PathC1
    /\ inv[1].ev.headers = Header("map", "", NULL)
    /\ courses = CourseUniverse
    /\ inv[1].resp.statusCode = 400 /\ inv[1].calls = 0

\* -------------------------------------------------------------------
\* C9: an OPTIONS request, in either envelope shape and without a tenant
\* header, is answered 200 {"message": "CORS preflight success"} with no
\* store access, by the catalog router and by both ledger writers.
C9_PreflightAlways200 ==
    (/\ inv[1].pc = "done"
     /\ RequestMethod(inv[1].ev) = "OPTIONS"
     /\ NoTenant(inv[1].ev.headers))
    => /\ inv[1].resp = Preflight
       /\ inv[1].calls = 0

\* -------------------------------------------------------------------
\* C10: for every content of the course table and every tenant T,
\* GET /courses answers 200 with exactly the items of T (an empty list
\* when there are none) and GET /courses/{id} answers 200 with exactly the
\* item keyed (T, id), or 404 "Course not found" when T has no such
\* course, whoever else owns that id; the table is never changed.

\* urllib.parse.quote of a course id, as a client writes it into the path
RECURSIVE quote(_)
quote(s) ==
    IF s = << >> THEN << >>
    ELSE (CASE Head(s) = "#" -> <<"%", "2", "3">>
            [] Head(s) = "%" -> <<"%", "2", "5">>
            [] OTHER -> <<Head(s)>>) \o quote(Tail(s))

CourseIds == {IdC1, IdHash, <<"c", "2">>}

\* the request is GET on path p under both readings of the envelope
IsGet(ev, p) ==
    /\ ev.ctxMethod \in {NULL, "GET"}
    /\ ev.httpMethod \in {NULL, "GET"}
    /\ ev.rawPath = p
    /\ ev.path \in {NoPath, p}

\* the request names tenant T, and no other
HasTenant(h, T) ==
    /\ h.form = "map"
    /\ T \in {h.lower, h.upper}
    /\ \A v \in {h.lower, h.upper} : Truthy(v) => v = T

C10_Reads ==
    \A T \in Tenants :
        (/\ inv[1].handler = "CAT"
         /\ inv[1].pc = "done"
         /\ ~inv[1].fault
         /\ HasTenant(inv[1].ev.headers, T))
        => /\ IsGet(inv[1].ev, CoursesPath)
              => /\ inv[1].resp.statusCode = 200
                 /\ inv[1].resp.msg = "items"
                 /\ inv[1].resp.items =
                      {DumpCourse(c) : c \in {x \in courses : x.tenant_id = T}}
           /\ \A id \in CourseIds :
                IsGet(inv[1].ev, CoursesPrefix \o quote(id))
                => LET found == {x \in courses :
                                    x.tenant_id = T /\ x.course_id = id}
                   IN  IF found = {}
                       THEN inv[1].resp = Resp(404, "Course not found")
                       ELSE /\ inv[1].resp.statusCode = 200
                            /\ inv[1].resp.msg = "item"
                            /\ inv[1].resp.items = {DumpCourse(c) : c \in found}

C10_CatalogReadsExact == []C10_Reads /\ [][courses' = courses]_vars

\* tenant t2 reads /courses/c%231: the id c#1 exists, but only under t1
C10_Witness ==
    /\ inv[1].handler = "CAT" /\ inv[1].pc = "done" /\ ~inv[1].fault
    /\ courses = CourseUniverse
    /\ HasTenant(inv[1].ev.headers, "t2")
    /\ IsGet(inv[1].ev, PathHash)
    /\ inv[1].resp = Resp(404, "Course not found")

\* -------------------------------------------------------------------
\* C11: a ledger store write that fails with an error other than the
\* precondition failure is answered 500 with a body carrying the store's
\* diagnostic message, and the handler issues no further store call, in
\* both writers, the overwrite of the duplicate path included.
C11_StoreErrorSurfaced ==
    \A s \in Slots :
        (Ledger(s) /\ inv[s].pc = "done" /\ inv[s].fault)
        => /\ inv[s].resp.statusCode = 500
           /\ StoreDiagnostic \in {inv[s].resp.msg, inv[s].resp.details}
           /\ inv[s].calls = IF inv[s].dup THEN 2 ELSE 1

\* -------------------------------------------------------------------
\* C12: every response of every HTTP handler, on success and on every
\* failure path, carries Content-Type: application/json, an
\* Access-Control-Allow-Origin header, an Access-Control-Allow-Methods
\* header and an Access-Control-Allow-Headers header admitting
\* Content-Type, X-Tenant-Id and Authorization.
HttpHandlers == {"LF", "UT", "CAT", "ORD"}

UniformHeaders(h) ==
    /\ h.contentType = "application/json"
    /\ h.allowOrigin # NULL
    /\ h.allowMethods # NULL
    /\ {"Content-Type", "X-Tenant-Id", "Authorization"} \subseteq h.allowHeaders

C12_UniformEnvelope ==
    \A s \in Slots :
        (inv[s].pc = "done" /\ inv[s].handler \in HttpHandlers)
        => /\ Envelope(s).statusCode \in {200, 400, 404, 500}
           /\ UniformHeaders(Envelope(s).headers)

\* -------------------------------------------------------------------
\* C13: routing does not depend on the envelope shape.  A request is
\* dispatched by the method and path it carries (the explicit httpMethod /
\* path field first, then requestContext.http.method / rawPath, then "GET"
\* and "/"), so it is answered with the status code of the HTTP-API-style
\* request carrying the same method, path, headers and body; in the ledger
\* writers, which dispatch on the method alone, the preflight answer is
\* given exactly to the requests whose method is OPTIONS.
RequestPath(ev) ==
    IF ev.path # NoPath THEN ev.path
    ELSE IF ev.rawPath # NoPath THEN ev.rawPath ELSE <<"/">>

\* the HTTP-API-style request carrying the same values as ev
HttpApiStyle(ev) ==
    Event(NULL, RequestMethod(ev), NoPath, RequestPath(ev), ev.headers, ev.body)

\* what the catalog handler answers to ev when the store answers
CatResult(store, ev) ==
    LET call == CatLocal(ev)
    IN  IF call.early THEN call.resp ELSE CatAnswer(store, call)

C13_RoutingShapeIndependent ==
    \A s \in Slots :
        /\ (inv[s].pc = "done" /\ inv[s].handler = "CAT" /\ ~inv[s].fault)
           => inv[s].resp.statusCode =
                CatResult(courses, HttpApiStyle(inv[s].ev)).statusCode
        /\ (inv[s].pc = "done" /\ Ledger(s))
           => (inv[s].resp = Preflight <=> RequestMethod(inv[s].ev) = "OPTIONS")

\* -------------------------------------------------------------------
\* C14: in the create-order operation the amount sent to the payment
\* gateway is the stored course price converted from major to minor
\* currency unit, price x 100 (the stored price counted in hundredths), for
\* every stored price, fractional ones included; and a request answered
\* 400 (tenant_id or course_id missing) or 404 (course absent) makes no
\* gateway call.
OrderOf(s) == OrderLocal(inv[s].ev)

C14_AmountIsPriceInMinorUnit ==
    \A s \in Slots :
        (inv[s].handler = "ORD" /\ inv[s].pc \in {"post", "done"})
        => /\ inv[s].payload # NoPayload
              => \E c \in GetItem(courses, OrderOf(s).tenant, OrderOf(s).course_id) :
                    inv[s].payload.amount = c.price
           /\ (inv[s].pc = "done" /\ inv[s].resp.statusCode \in {400, 404})
              => gateway = << >>

\* -------------------------------------------------------------------
\* C15: in the post-confirmation trigger, for an event that carries
\* userName and request.userAttributes, no exception propagates; the
\* mapping put is attempted exactly once whether the user put succeeded or
\* failed, and the user put exactly once whatever the mapping put does; a
\* put that succeeds stores its item and one that fails changes nothing;
\* and the handler returns the original event unchanged.
Carries(ev) == ev.userName # NULL /\ ev.userAttributes.form = "map"

C15_Done ==
    (Carries(trigger.ev) /\ trigger.pc = "done")
    => /\ trigger.userPuts = 1
       /\ trigger.mapPuts = 1
       /\ trigger.returned
       /\ trigger.ret = trigger.ev
       /\ ~trigger.userFailed
          => UserItem(trigger.ev, trigger.created_at) \in users
       /\ ~trigger.mapFailed
          => UserTenantItem(trigger.ev, trigger.created_at) \in mappings

C15_Step ==
    /\ trigger'.ev = trigger.ev
    /\ trigger'.userFailed /\ ~trigger.userFailed => users' = users
    /\ trigger'.mapFailed /\ ~trigger.mapFailed => mappings' = mappings
    /\ trigger.returned => trigger' = trigger

C15_IndependentWrites ==
    /\ [](Carries(trigger.ev) => trigger.raised = NULL /\ trigger.pc # "raised")
    /\ []C15_Done
    /\ [][C15_Step]_vars

C15_Witness ==
    /\ Carries(trigger.ev)
    /\ trigger.pc = "done"
    /\ trigger.userFailed /\ ~trigger.mapFailed
    /\ trigger.mapPuts = 1
    /\ users = {EarlierUser}
    /\ UserTenantItem(trigger.ev, trigger.created_at) \in mappings
    /\ trigger.returned /\ trigger.ret = trigger.ev

\* -------------------------------------------------------------------
\* C16: whenever a ledger writer answers 200 for a notification, the
\* timestamp of the response body equals the updated_at of the item this
\* request wrote to the store, on the first-seen path and on the duplicate
\* (precondition failed, overwrite) path.
C16_TimestampIsWrittenUpdatedAt ==
    \A s \in Slots :
        (/\ Ledger(s)
         /\ inv[s].pc = "done"
         /\ inv[s].resp.statusCode = 200
         /\ inv[s].calls > 0)
        => /\ inv[s].resp.transaction_id = inv[s].item.transaction_id
           /\ inv[s].resp.timestamp = inv[s].item.updated_at

====
